---- MODULE Spec2Model ----
(***************************************************************************)
(* Model of the projection engine and the phase chain of                   *)
(* src/sip_calculator.py.                                                  *)
(*                                                                         *)
(* Arithmetic.  The program computes in binary floating point.  Every      *)
(* amount, rate and step-up of this model is drawn from values on which    *)
(* each operation of the program is exact in floating point: amounts are   *)
(* small integers, a monthly-compounded annual rate is a multiple of 1200  *)
(* (annual_rate / 12 / 100 is then an integer), an annually compounded     *)
(* rate and a step-up are multiples of 100, and an inflation rate is 0 or  *)
(* 100 (a division by a power of two).  On these values integer            *)
(* arithmetic is what the program computes.                                *)
(***************************************************************************)
EXTENDS Integers, Sequences, FiniteSets, TLC

VARIABLES
    fn,        \* ledger run: the function being executed
    args,      \* ledger run: its arguments
    month,     \* ledger run: the last month of the loop that has completed
    loc,       \* ledger run: the locals of the loop, `data` included
    ret,       \* ledger run: the returned tuple, or NoValue before the return
    session_state, \* UI session: st.session_state (phases, streams, results)
    widgets,       \* UI session: the values of the keyed widgets of each phase
    reruns         \* UI session: the script runs the user's actions have caused

vars == <<fn, args, month, loc, ret, session_state, widgets, reruns>>

NoValue == [none |-> TRUE]

\* ------------------------------------------------------------------ bounds
MaxYears == 2
MaxAmount == 2
\* The most streams (SIPs, other lumpsums and SWPs together) of one phase.
MaxStreams == 2
\* The longest run, in months, on which a monthly rate of 100 % is drawn:
\* the balance doubles every month and must stay a machine integer.
MaxDoublingMonths == 24
\* The most user actions (script reruns) of one UI session.
MaxReruns == 5

MonthsPerYear == 12

\* ----------------------------------------------------------------- helpers
RECURSIVE Pow(_, _)
Pow(b, e) == IF e <= 0 THEN 1 ELSE b * Pow(b, e - 1)

Last(s) == s[Len(s)]

\* F applied to the value of v, computed once: an assignment `b = v` followed
\* by the code F that reads b.
With(v, F(_)) == CHOOSE r \in { F(b) : b \in {v} } : TRUE

\* annual_rate / 12 / 100
monthly_rate_of(annual_rate) == (annual_rate \div MonthsPerYear) \div 100

\* (1 + pct / 100), the annual factor of a rate, a step-up or an inflation rate
pct_factor_no_unit(pct) == pct \div 100
pct_factor(pct) == 1 + pct \div 100

\* --------------------------------------------------------- calculate_sip
sip_init(a) ==
    [ current_amount |-> a.initial_amount,
      total_invested |-> a.initial_amount,
      current_sip    |-> a.monthly_amount,
      data           |-> << >> ]

\* The annual step-up test of calculate_sip: after the 12th month of a year.
step_up_shifted(m, step_up) == m % MonthsPerYear = MonthsPerYear - 1 /\ step_up > 0
step_up_due(m, step_up) == m % MonthsPerYear = 0 /\ step_up > 0

\* One iteration of the loop of calculate_sip, for month m: the contribution
\* is added, then the month's growth is applied to the whole balance.
sip_month_ordinary(a, m, l) ==
    LET total_invested == l.total_invested + l.current_sip
        current_amount ==
            l.current_amount * (1 + monthly_rate_of(a.annual_rate)) + l.current_sip
        current_sip ==
            IF step_up_due(m, a.step_up)
            THEN l.current_sip * pct_factor(a.step_up)
            ELSE l.current_sip
        data ==
            IF m % MonthsPerYear = 0
            THEN Append(l.data,
                   [ Year            |-> m \div MonthsPerYear,
                     Amount_Invested |-> total_invested,
                     Current_Value   |-> current_amount,
                     Returns         |-> current_amount - total_invested ])
            ELSE l.data
    IN  [ current_amount |-> current_amount,
          total_invested |-> total_invested,
          current_sip    |-> current_sip,
          data           |-> data ]

sip_month(a, m, l) ==
    LET total_invested == l.total_invested + l.current_sip
        current_amount ==
            (l.current_amount + l.current_sip) * (1 + monthly_rate_of(a.annual_rate))
        current_sip ==
            IF step_up_due(m, a.step_up)
            THEN l.current_sip * pct_factor(a.step_up)
            ELSE l.current_sip
        data ==
            IF m % MonthsPerYear = 0
            THEN Append(l.data,
                   [ Year            |-> m \div MonthsPerYear,
                     Amount_Invested |-> total_invested,
                     Current_Value   |-> current_amount,
                     Returns         |-> current_amount - total_invested ])
            ELSE l.data
    IN  [ current_amount |-> current_amount,
          total_invested |-> total_invested,
          current_sip    |-> current_sip,
          data           |-> data ]

sip_return(l) ==
    [ final_amount |-> l.current_amount, total_invested |-> l.total_invested,
      df |-> l.data ]

RECURSIVE sip_loop(_, _, _)
sip_loop(a, m, l) ==
    IF m > a.years * MonthsPerYear THEN l
    ELSE With(sip_month(a, m, l), LAMBDA next : sip_loop(a, m + 1, next))

calculate_sip(monthly_amount, annual_rate, years, step_up, initial_amount) ==
    LET a == [ monthly_amount |-> monthly_amount, annual_rate |-> annual_rate,
               years |-> years, step_up |-> step_up,
               initial_amount |-> initial_amount ]
    IN  sip_return(sip_loop(a, 1, sip_init(a)))

\* ----------------------------------------------------- calculate_lumpsum
calculate_lumpsum_simple(principal, annual_rate, years, initial_amount) ==
    LET total_principal == principal + initial_amount
        value(year) == total_principal * (1 + (annual_rate \div 100) * year)
    IN  [ final_amount   |-> value(years),
          total_invested |-> total_principal,
          df |-> [ year \in 1..years |->
                     [ Year |-> year, Amount_Invested |-> total_principal,
                       Current_Value |-> value(year),
                       Returns |-> value(year) - total_principal ] ] ]

\* calculate_lumpsum with its rows numbered from 0 (range(years)).
calculate_lumpsum_zero_based(principal, annual_rate, years, initial_amount) ==
    LET total_principal == principal + initial_amount
        value(year) == total_principal * Pow(pct_factor(annual_rate), year)
    IN  [ final_amount   |-> value(years),
          total_invested |-> total_principal,
          df |-> [ i \in 1..years |->
                     [ Year |-> i - 1, Amount_Invested |-> total_principal,
                       Current_Value |-> value(i - 1),
                       Returns |-> value(i - 1) - total_principal ] ] ]

calculate_lumpsum(principal, annual_rate, years, initial_amount) ==
    LET total_principal == principal + initial_amount
        total_invested  == total_principal
        row(year) ==
            LET current_value == total_principal * Pow(pct_factor(annual_rate), year)
            IN  [ Year            |-> year,
                  Amount_Invested |-> total_invested,
                  Current_Value   |-> current_value,
                  Returns         |-> current_value - total_invested ]
    IN  [ final_amount   |-> total_principal * Pow(pct_factor(annual_rate), years),
          total_invested |-> total_invested,
          df             |-> [year \in 1..years |-> row(year)] ]

\* --------------------------------------------------------- calculate_swp
swp_init(a) ==
    [ current_amount  |-> a.initial_amount,
      total_withdrawn |-> 0,
      data            |-> << >> ]

\* What the withdrawal step of calculate_swp takes from a balance: the whole
\* monthly withdrawal when the balance covers it, nothing otherwise.
withdrawal_unguarded(balance, monthly_withdrawal) == monthly_withdrawal
withdrawal_partial(balance, monthly_withdrawal) ==
    IF balance >= monthly_withdrawal THEN monthly_withdrawal ELSE balance
withdrawal_shortfall(balance, monthly_withdrawal) ==
    IF balance >= monthly_withdrawal THEN monthly_withdrawal
    ELSE balance - monthly_withdrawal
withdrawal_taken(balance, monthly_withdrawal) ==
    IF balance >= monthly_withdrawal THEN monthly_withdrawal ELSE 0

\* One iteration of the loop of calculate_swp, for month m.
swp_month(a, m, l) ==
    LET grown == l.current_amount * (1 + monthly_rate_of(a.annual_rate))
        taken == withdrawal_taken(grown, a.monthly_withdrawal)
        current_amount  == grown - taken
        total_withdrawn == l.total_withdrawn + taken
        data ==
            IF m % MonthsPerYear = 0
            THEN Append(l.data,
                   [ Year              |-> m \div MonthsPerYear,
                     Remaining_Value   |-> current_amount,
                     Total_Withdrawn   |-> total_withdrawn,
                     Annual_Withdrawal |-> a.monthly_withdrawal * 12 ])
            ELSE l.data
    IN  [ current_amount  |-> current_amount,
          total_withdrawn |-> total_withdrawn,
          data            |-> data ]

swp_return(l) ==
    [ remaining_amount |-> l.current_amount, total_withdrawn |-> l.total_withdrawn,
      df |-> l.data ]

RECURSIVE swp_loop(_, _, _)
swp_loop(a, m, l) ==
    IF m > a.years * MonthsPerYear THEN l
    ELSE With(swp_month(a, m, l), LAMBDA next : swp_loop(a, m + 1, next))

calculate_swp(initial_amount, monthly_withdrawal, annual_rate, years) ==
    LET a == [ initial_amount |-> initial_amount,
               monthly_withdrawal |-> monthly_withdrawal,
               annual_rate |-> annual_rate, years |-> years ]
    IN  swp_return(swp_loop(a, 1, swp_init(a)))

\* ----------------------------------------- calculate_combined_investment
\* The opening totals with initial_amount left out of total_invested.
combined_init_no_initial(a) ==
    [ current_amount     |-> a.initial_amount + a.lumpsum_amount,
      total_invested     |-> a.lumpsum_amount,
      total_sip_invested |-> 0,
      total_withdrawn    |-> 0,
      current_sip        |-> a.sip_amount,
      data               |-> << >> ]

combined_init(a) ==
    [ current_amount     |-> a.initial_amount + a.lumpsum_amount,
      total_invested     |-> a.initial_amount + a.lumpsum_amount,
      total_sip_invested |-> 0,
      total_withdrawn    |-> 0,
      current_sip        |-> a.sip_amount,
      data               |-> << >> ]

\* The year a month of the loop belongs to: (month - 1) // 12 + 1.
current_year_early(m) == m \div MonthsPerYear + 1
current_year_of(m) == (m - 1) \div MonthsPerYear + 1

\* The test that lets the withdrawal step of calculate_combined_investment run.
swp_applicable(a, m) == a.swp_withdrawal > 0 /\ current_year_of(m) >= a.swp_start_year

\* One iteration of the loop of calculate_combined_investment, for month m.
combined_month(a, m, l) ==
    LET sip == a.sip_amount > 0
        total_sip_invested ==
            IF sip THEN l.total_sip_invested + l.current_sip ELSE l.total_sip_invested
        total_invested ==
            IF sip THEN l.total_invested + l.current_sip ELSE l.total_invested
        added == IF sip THEN l.current_amount + l.current_sip ELSE l.current_amount
        grown == added * (1 + monthly_rate_of(a.annual_rate))
        take  == swp_applicable(a, m) /\ grown >= a.swp_withdrawal
        current_amount  == IF take THEN grown - a.swp_withdrawal ELSE grown
        total_withdrawn ==
            IF take THEN l.total_withdrawn + a.swp_withdrawal ELSE l.total_withdrawn
        current_sip ==
            IF m % MonthsPerYear = 0 /\ a.step_up > 0 /\ a.sip_amount > 0
            THEN l.current_sip * pct_factor(a.step_up)
            ELSE l.current_sip
        data ==
            IF m % MonthsPerYear = 0
            THEN Append(l.data,
                   [ Year             |-> m \div MonthsPerYear,
                     SIP_Invested     |-> total_sip_invested,
                     Lumpsum_Invested |-> a.lumpsum_amount + a.initial_amount,
                     Total_Invested   |-> total_invested,
                     Current_Value    |-> current_amount,
                     Total_Withdrawn  |-> total_withdrawn,
                     Net_Returns      |-> current_amount + total_withdrawn - total_invested ])
            ELSE l.data
    IN  [ current_amount     |-> current_amount,
          total_invested     |-> total_invested,
          total_sip_invested |-> total_sip_invested,
          total_withdrawn    |-> total_withdrawn,
          current_sip        |-> current_sip,
          data               |-> data ]

combined_return(l) ==
    [ final_amount |-> l.current_amount, total_invested |-> l.total_invested,
      total_withdrawn |-> l.total_withdrawn, df |-> l.data ]

RECURSIVE combined_loop(_, _, _)
combined_loop(a, m, l) ==
    IF m > a.years * MonthsPerYear THEN l
    ELSE With(combined_month(a, m, l), LAMBDA next : combined_loop(a, m + 1, next))

calculate_combined_investment(sip_amount, lumpsum_amount, annual_rate, years, step_up, initial_amount, swp_withdrawal, swp_start_year) ==
    LET a == [ sip_amount |-> sip_amount, lumpsum_amount |-> lumpsum_amount,
               annual_rate |-> annual_rate, years |-> years, step_up |-> step_up,
               initial_amount |-> initial_amount,
               swp_withdrawal |-> swp_withdrawal,
               swp_start_year |-> swp_start_year ]
    IN  combined_return(combined_loop(a, 1, combined_init(a)))

\* ------------------------------------------------------ fractions
\* A real (inflation-adjusted) value is a quotient of integers, kept in
\* lowest terms: [num, den] with den > 0.
RECURSIVE GCD(_, _)
GCD(x, y) == IF y = 0 THEN x ELSE GCD(y, x % y)

Frac(n, d) ==
    LET g == GCD(IF n < 0 THEN -n ELSE n, d)
    IN  [num |-> n \div g, den |-> d \div g]

RECURSIVE SumTo(_, _)
\* f[1] + ... + f[n]
SumTo(f, n) == IF n = 0 THEN 0 ELSE f[n] + SumTo(f, n - 1)

\* The empty DataFrame.
EmptyDf == << >>

\* ----------------------------------------------- calculate_multiple_sips
calculate_multiple_sips_last(sips_list, years, initial_amount) ==
    IF sips_list = << >>
    THEN [ total_final_amount |-> initial_amount,
           total_invested     |-> initial_amount,
           df                 |-> EmptyDf ]
    ELSE
      With(calculate_sip(Last(sips_list).amount, Last(sips_list).rate, years,
                         Last(sips_list).step_up, 0),
           LAMBDA r :
             [ total_final_amount |-> r.final_amount,
               total_invested     |-> r.total_invested,
               df |-> [ y \in 1..years |->
                          [ Year |-> y,
                            SIP_Value |-> <<r.df[y].Current_Value>>,
                            SIP_Invested |-> <<r.df[y].Amount_Invested>>,
                            Total_SIP_Value |-> r.df[y].Current_Value,
                            Total_SIP_Invested |-> r.df[y].Amount_Invested ] ] ])

calculate_multiple_sips(sips_list, years, initial_amount) ==
    IF sips_list = << >>
    THEN [ total_final_amount |-> initial_amount,
           total_invested     |-> initial_amount,
           df                 |-> EmptyDf ]
    ELSE
      LET n == Len(sips_list)
          row(each, y) ==
            LET value    == [i \in 1..n |-> each[i].df[y].Current_Value]
                invested == [i \in 1..n |-> each[i].df[y].Amount_Invested]
            IN  [ Year               |-> each[1].df[y].Year,
                  SIP_Value          |-> value,
                  SIP_Invested       |-> invested,
                  Total_SIP_Value    |-> SumTo(value, n),
                  Total_SIP_Invested |-> SumTo(invested, n) ]
      IN  With([ i \in 1..n |->
                   calculate_sip(sips_list[i].amount, sips_list[i].rate, years,
                                 sips_list[i].step_up, 0) ],
               LAMBDA each :
                 [ total_final_amount |->
                     initial_amount
                       + SumTo([i \in 1..n |-> each[i].final_amount], n),
                   total_invested |->
                     initial_amount
                       + SumTo([i \in 1..n |-> each[i].total_invested], n),
                   df |-> [y \in 1..years |-> row(each, y)] ])

\* ------------------------------------------- calculate_multiple_lumpsums
calculate_multiple_lumpsums(lumpsums_list, years, initial_amount) ==
    IF lumpsums_list = << >>
    THEN [ total_final_amount |-> initial_amount,
           total_invested     |-> initial_amount,
           df                 |-> EmptyDf ]
    ELSE
      LET n == Len(lumpsums_list)
          row(each, y) ==
            LET value    == [i \in 1..n |-> each[i].df[y].Current_Value]
                invested == [i \in 1..n |-> each[i].df[y].Amount_Invested]
            IN  [ Year                   |-> each[1].df[y].Year,
                  Lumpsum_Value          |-> value,
                  Lumpsum_Invested       |-> invested,
                  Total_Lumpsum_Value    |-> SumTo(value, n),
                  Total_Lumpsum_Invested |-> SumTo(invested, n) ]
      IN  With([ i \in 1..n |->
                   calculate_lumpsum(lumpsums_list[i].amount,
                                     lumpsums_list[i].rate, years, 0) ],
               LAMBDA each :
                 [ total_final_amount |->
                     initial_amount
                       + SumTo([i \in 1..n |-> each[i].final_amount], n),
                   total_invested |->
                     initial_amount
                       + SumTo([i \in 1..n |-> each[i].total_invested], n),
                   df |-> [y \in 1..years |-> row(each, y)] ])

\* ----------------------------------------------- calculate_multiple_swps
\* The SWPs run one after the other, each on what the one before it left,
\* each for `years` years from its month 1; 'start_year' is not read.
RECURSIVE swp_chain(_, _, _, _)
\* The results of calculate_swp for the streams i..Len(swps_list), the first
\* of them starting from current_amount.
swp_chain(swps_list, years, i, current_amount) ==
    IF i > Len(swps_list) THEN << >>
    ELSE With(calculate_swp(current_amount, swps_list[i].amount,
                            swps_list[i].rate, years),
              LAMBDA r :
                <<r>> \o swp_chain(swps_list, years, i + 1, r.remaining_amount))

calculate_multiple_swps(swps_list, portfolio_values, years) ==
    IF swps_list = << >> \/ portfolio_values = << >>
    THEN [ remaining_amount |-> 0, total_withdrawn |-> 0, df |-> EmptyDf ]
    ELSE
      LET n == Len(swps_list)
          \* combined_data is the first stream's frame, with one pair of
          \* columns added per stream
          row(each, y) ==
            [ Year              |-> each[1].df[y].Year,
              Remaining_Value   |-> each[1].df[y].Remaining_Value,
              Total_Withdrawn   |-> each[1].df[y].Total_Withdrawn,
              Annual_Withdrawal |-> each[1].df[y].Annual_Withdrawal,
              SWP_Withdrawn     |-> [i \in 1..n |-> each[i].df[y].Total_Withdrawn],
              SWP_Remaining     |-> [i \in 1..n |-> each[i].df[y].Remaining_Value] ]
      IN  With(swp_chain(swps_list, years, 1, Last(portfolio_values)),
               LAMBDA each :
                 [ remaining_amount |-> each[n].remaining_amount,
                   total_withdrawn  |->
                     SumTo([i \in 1..n |-> each[i].total_withdrawn], n),
                   df |-> [y \in 1..years |-> row(each, y)] ])

\* ------------------------------- the reference SIP loop of test_portfolio.py
\* annual_return / 100, then / 12.
reference_monthly_return(annual_return) == (annual_return \div 100) \div 12

RECURSIVE reference_months(_, _, _, _)
\* `for month in range(12)`, with `n` months left.
reference_months(amount, current_sip, monthly_return, n) ==
    IF n = 0 THEN amount
    ELSE With((amount + current_sip) * (1 + monthly_return),
              LAMBDA next : reference_months(next, current_sip, monthly_return, n - 1))

RECURSIVE reference_years(_, _, _, _)
\* `for year in range(years)` from `year` on.
reference_years(sip, year, amount, current_sip) ==
    IF year >= sip.years THEN amount
    ELSE With(reference_months(amount, current_sip,
                               reference_monthly_return(sip.annual_return),
                               MonthsPerYear),
              LAMBDA grown :
                reference_years(sip, year + 1, grown,
                                IF sip.step_up \div 100 > 0
                                THEN current_sip * (1 + sip.step_up \div 100)
                                ELSE current_sip))

\* The amount one SIP dict of the test ends with.
reference_sip(sip) == reference_years(sip, 0, 0, sip.monthly_sip)

\* calculate_multiple_sips of the test: the sum over the dicts.
reference_multiple_sips(sips) ==
    SumTo([ i \in DOMAIN sips |-> reference_sip(sips[i]) ], Len(sips))

\* -------------------------------------------- apply_inflation_adjustment
\* The exponent of the deflator of the row of phase-local year `year`.
cumulative_year_local(phase_start_year, year) == year
cumulative_year_zero_based(phase_start_year, year) == phase_start_year + year - 1
cumulative_year_of(phase_start_year, year) == phase_start_year + year

\* The adjustment without its test of the rate: every value is divided.
apply_inflation_unguarded(nominal_values, inflation_rate, cumulative_years) ==
    [ i \in 1..Len(nominal_values) |->
        LET d == Pow(pct_factor(inflation_rate), cumulative_years[i])
        IN  IF d < 0 THEN Frac(-nominal_values[i], -d)
            ELSE Frac(nominal_values[i], d) ]

apply_inflation_adjustment(nominal_values, inflation_rate, cumulative_years) ==
    IF inflation_rate <= 0
    THEN [i \in 1..Len(nominal_values) |-> Frac(nominal_values[i], 1)]
    ELSE [ i \in 1..Len(nominal_values) |->
             Frac(nominal_values[i],
                  Pow(pct_factor(inflation_rate), cumulative_years[i])) ]

\* --------------------------------- calculate_combined_portfolio_parallel
\* The growth of the combined lumpsum (rollover + additional) over `year` years.
combined_lumpsum_value(amount, lumpsum_roi, year) ==
    IF amount > 0 THEN amount * Pow(pct_factor(lumpsum_roi), year) ELSE 0

\* The row of phase-local year `year`, before the inflation adjustment.
portfolio_row(year, sips, others, swps, rollover_nominal, additional_lumpsum, lumpsum_roi, phase_start_year) ==
    LET combined_lumpsum_amount   == rollover_nominal + additional_lumpsum
        combined_lumpsum_invested == combined_lumpsum_amount
        sip_invested == IF sips.df # EmptyDf
                        THEN sips.df[year].Total_SIP_Invested ELSE 0
        sip_value    == IF sips.df # EmptyDf
                        THEN sips.df[year].Total_SIP_Value ELSE 0
        year_combined_lumpsum_value ==
            combined_lumpsum_value(combined_lumpsum_amount, lumpsum_roi, year)
        year_other_lumpsum_value ==
            IF others.df # EmptyDf
            THEN others.df[year].Total_Lumpsum_Value ELSE 0
        lumpsum_value == year_combined_lumpsum_value + year_other_lumpsum_value
    IN  [ Year             |-> year,
          Cumulative_Years |-> cumulative_year_of(phase_start_year, year),
          Total_SIP_Invested |-> sip_invested,
          Total_SIP_Value    |-> sip_value,
          Rollover_Lumpsum_Invested   |-> rollover_nominal,
          Additional_Lumpsum_Invested |->
              additional_lumpsum + others.total_invested,
          Total_Lumpsum_Invested |->
              combined_lumpsum_invested + others.total_invested,
          Total_Lumpsum_Value |-> lumpsum_value,
          Total_Withdrawn |->
              IF swps.df # EmptyDf THEN swps.df[year].Total_Withdrawn ELSE 0,
          Nominal_Portfolio_Value |->
              IF swps.df # EmptyDf THEN swps.df[year].Remaining_Value
              ELSE sip_value + lumpsum_value ]

\* The inflation adjustment of the rows and the returned tuple; the mutant's
\* net benefit leaves the withdrawals out.
portfolio_result_gain(rows, portfolio_value_nominal, total_invested, total_withdrawn, inflation_rate) ==
    LET years  == Len(rows)
        adjust == inflation_rate > 0 /\ rows # EmptyDf
        real_of ==
            IF adjust
            THEN apply_inflation_adjustment(
                     [y \in 1..years |-> rows[y].Nominal_Portfolio_Value],
                     inflation_rate,
                     [y \in 1..years |-> rows[y].Cumulative_Years])
            ELSE [y \in 1..years |-> Frac(rows[y].Nominal_Portfolio_Value, 1)]
    IN  With(real_of, LAMBDA real_values :
          [ nominal_final   |-> portfolio_value_nominal,
            real_final      |->
                IF adjust THEN Last(real_values)
                ELSE Frac(portfolio_value_nominal, 1),
            total_invested  |-> total_invested,
            total_withdrawn |-> total_withdrawn,
            net_benefit     |->
                portfolio_value_nominal - total_invested,
            portfolio_df    |->
              [ y \in 1..years |->
                  [ c \in DOMAIN rows[y] \cup {"Real_Portfolio_Value"} |->
                      IF c = "Real_Portfolio_Value" THEN real_values[y]
                      ELSE rows[y][c] ] ] ])

portfolio_result(rows, portfolio_value_nominal, total_invested, total_withdrawn, inflation_rate) ==
    LET years  == Len(rows)
        adjust == inflation_rate > 0 /\ rows # EmptyDf
        real_of ==
            IF adjust
            THEN apply_inflation_adjustment(
                     [y \in 1..years |-> rows[y].Nominal_Portfolio_Value],
                     inflation_rate,
                     [y \in 1..years |-> rows[y].Cumulative_Years])
            ELSE [y \in 1..years |-> Frac(rows[y].Nominal_Portfolio_Value, 1)]
    IN  With(real_of, LAMBDA real_values :
          [ nominal_final   |-> portfolio_value_nominal,
            real_final      |->
                IF adjust THEN Last(real_values)
                ELSE Frac(portfolio_value_nominal, 1),
            total_invested  |-> total_invested,
            total_withdrawn |-> total_withdrawn,
            net_benefit     |->
                portfolio_value_nominal + total_withdrawn - total_invested,
            portfolio_df    |->
              [ y \in 1..years |->
                  [ c \in DOMAIN rows[y] \cup {"Real_Portfolio_Value"} |->
                      IF c = "Real_Portfolio_Value" THEN real_values[y]
                      ELSE rows[y][c] ] ] ])

calculate_combined_portfolio_parallel(sips_list, lumpsums_list, swps_list, years, rollover_nominal, additional_lumpsum, lumpsum_roi, inflation_rate, phase_start_year) ==
    LET combined_lumpsum_amount   == rollover_nominal + additional_lumpsum
        combined_lumpsum_invested == combined_lumpsum_amount
        combined_lumpsum_final ==
            combined_lumpsum_value(combined_lumpsum_amount, lumpsum_roi, years)
        apply_swps(before_swp) ==
            IF swps_list # << >>
            THEN calculate_multiple_swps(swps_list, <<before_swp>>, years)
            ELSE [ remaining_amount |-> before_swp, total_withdrawn |-> 0,
                   df |-> EmptyDf ]
    IN  With(calculate_multiple_sips(sips_list, years, 0), LAMBDA sips :
        With(calculate_multiple_lumpsums(lumpsums_list, years, 0), LAMBDA others :
          LET total_lumpsum_final ==
                  combined_lumpsum_final + others.total_final_amount
              total_lumpsum_invested ==
                  combined_lumpsum_invested + others.total_invested
              total_invested == sips.total_invested + total_lumpsum_invested
          IN  With(apply_swps(sips.total_final_amount + total_lumpsum_final),
                   LAMBDA swps :
              With([ year \in 1..years |->
                       portfolio_row(year, sips, others, swps, rollover_nominal,
                                     additional_lumpsum, lumpsum_roi,
                                     phase_start_year) ],
                   LAMBDA rows :
                     portfolio_result(rows, swps.remaining_amount, total_invested,
                                      swps.total_withdrawn, inflation_rate)))))

\* ------------------------------------------------------------ input sets
Amounts == 0..MaxAmount
YearsSet == 1..MaxYears
\* Monthly-compounded annual rates: 0 % and 1200 % (100 % a month).
MonthlyRates(years) ==
    {0} \cup (IF years * MonthsPerYear <= MaxDoublingMonths THEN {1200} ELSE {})
StepUps == {0, 100}

SipArgs ==
    { a \in [ monthly_amount : Amounts, annual_rate : {0, 1200}, years : YearsSet,
              step_up : StepUps, initial_amount : Amounts ] :
        a.annual_rate \in MonthlyRates(a.years) }

SwpArgs ==
    { a \in [ initial_amount : Amounts \cup {2 * MaxAmount - 1, 5 * MaxAmount, 30 * MaxAmount},
              monthly_withdrawal : Amounts,
              annual_rate : {0, 1200}, years : YearsSet ] :
        a.annual_rate \in MonthlyRates(a.years) }

CombinedArgs ==
    { a \in [ sip_amount : Amounts, lumpsum_amount : {0, 1, 5 * MaxAmount},
              annual_rate : {0, 1200}, years : YearsSet, step_up : StepUps,
              initial_amount : 0..1, swp_withdrawal : Amounts,
              swp_start_year : YearsSet ] :
        /\ a.annual_rate \in MonthlyRates(a.years)
        /\ a.swp_start_year <= a.years }

\* ------------------------------------------- the ledger runs, month by month
InitLedger ==
    /\ fn \in {"calculate_sip", "calculate_swp", "calculate_combined_investment"}
    /\ args \in CASE fn = "calculate_sip" -> SipArgs
                  [] fn = "calculate_swp" -> SwpArgs
                  [] OTHER -> CombinedArgs
    /\ month = 0
    /\ loc = CASE fn = "calculate_sip" -> sip_init(args)
               [] fn = "calculate_swp" -> swp_init(args)
               [] OTHER -> combined_init(args)
    /\ ret = NoValue
    /\ session_state = NoValue /\ widgets = NoValue /\ reruns = 0

InLoop == ret = NoValue /\ month < args.years * MonthsPerYear

SipMonth ==
    /\ fn = "calculate_sip" /\ InLoop
    /\ month' = month + 1
    /\ loc' = sip_month(args, month + 1, loc)
    /\ UNCHANGED <<fn, args, ret, session_state, widgets, reruns>>

SwpMonth ==
    /\ fn = "calculate_swp" /\ InLoop
    /\ month' = month + 1
    /\ loc' = swp_month(args, month + 1, loc)
    /\ UNCHANGED <<fn, args, ret, session_state, widgets, reruns>>

CombinedMonth ==
    /\ fn = "calculate_combined_investment" /\ InLoop
    /\ month' = month + 1
    /\ loc' = combined_month(args, month + 1, loc)
    /\ UNCHANGED <<fn, args, ret, session_state, widgets, reruns>>

Return ==
    /\ ret = NoValue /\ month = args.years * MonthsPerYear
    /\ ret' = CASE fn = "calculate_sip" -> sip_return(loc)
                [] fn = "calculate_swp" -> swp_return(loc)
                [] OTHER -> combined_return(loc)
    /\ UNCHANGED <<fn, args, month, loc, session_state, widgets, reruns>>

NextLedger == SipMonth \/ SwpMonth \/ CombinedMonth \/ Return

SpecLedger == InitLedger /\ [][NextLedger]_vars

\* ------------------------------------ one phase, as the projector computes it
\* The streams a phase of `years` years is drawn with.  A monthly rate of
\* 100 % is drawn where every value of the phase stays a machine integer.
SipStreams(years) ==
    [ amount : {MaxAmount}, rate : MonthlyRates(years), step_up : StepUps ]
LumpsumStreams == [ amount : {MaxAmount}, rate : {0, 100} ]
SwpStreams(years) ==
    [ amount : {1, MaxAmount},
      rate : {0} \cup (IF 2 * years * MonthsPerYear <= MaxDoublingMonths
                       THEN {1200} ELSE {}),
      start_year : {1, years} ]

StreamCounts ==
    { c \in [sips : 0..MaxStreams, lumpsums : 0..MaxStreams, swps : 0..MaxStreams] :
        c.sips + c.lumpsums + c.swps <= MaxStreams }

PhaseStreams(years) ==
    UNION { [ sips_list     : [1..c.sips -> SipStreams(years)],
              lumpsums_list : [1..c.lumpsums -> LumpsumStreams],
              swps_list     : [1..c.swps -> SwpStreams(years)] ] : c \in StreamCounts }

\* A lumpsum ROI of 1200 % (the rate at which the monthly and the annual
\* compounding of one lumpsum can be compared) is drawn for the phases without
\* SWPs and other lumpsums.
PhaseScalars(st) ==
    [ rollover_nominal : {0, 5}, additional_lumpsum : 0..1,
      lumpsum_roi : {0, 100} \cup (IF st.swps_list = << >> /\ st.lumpsums_list = << >>
                                   THEN {1200} ELSE {}),
      inflation_rate : {0, 100},
      phase_start_year : {0, 2} ]

\* The SWP streams whose balance doubles every month.
DoublingSwps(swps_list) == {i \in DOMAIN swps_list : swps_list[i].rate > 0}

PhaseOf(st, sc, years) ==
    [ sips_list |-> st.sips_list, lumpsums_list |-> st.lumpsums_list,
      swps_list |-> st.swps_list, years |-> years,
      rollover_nominal |-> sc.rollover_nominal,
      additional_lumpsum |-> sc.additional_lumpsum,
      lumpsum_roi |-> sc.lumpsum_roi, inflation_rate |-> sc.inflation_rate,
      phase_start_year |-> sc.phase_start_year ]

PhaseArgsOf(years) ==
    UNION { { PhaseOf(st, sc, years) : sc \in PhaseScalars(st) } :
              st \in { t \in PhaseStreams(years) :
                         Cardinality(DoublingSwps(t.swps_list)) <= 1 } }

PhaseArgs == UNION { PhaseArgsOf(years) : years \in YearsSet }

project_phase(a) ==
    calculate_combined_portfolio_parallel(
        a.sips_list, a.lumpsums_list, a.swps_list, a.years, a.rollover_nominal,
        a.additional_lumpsum, a.lumpsum_roi, a.inflation_rate, a.phase_start_year)

InitPhase ==
    /\ fn = "calculate_combined_portfolio_parallel"
    /\ args \in PhaseArgs
    /\ month = 0
    /\ loc = NoValue
    /\ ret = NoValue
    /\ session_state = NoValue /\ widgets = NoValue /\ reruns = 0

PhaseCall ==
    /\ fn = "calculate_combined_portfolio_parallel"
    /\ ret = NoValue
    /\ ret' = project_phase(args)
    /\ UNCHANGED <<fn, args, month, loc, session_state, widgets, reruns>>

NextPhase == PhaseCall

SpecPhase == InitPhase /\ [][NextPhase]_vars

\* ------------------------------- the engine called on unvalidated values
\* The functions take any number: nothing in them tests the sign of a rate
\* or of an amount, or the range of `years`.  These are the calls with values
\* a caller can pass, the ones the UI's min_value would refuse included.
RawYears == 0..MaxYears
RawMonthlyRates(years) == {-1200} \cup MonthlyRates(years)
RawLumpsums == {-1, 0, 1, 5}

SipRawArgs ==
    { a \in [ monthly_amount : Amounts, annual_rate : {-1200, 0, 1200},
              years : RawYears, step_up : StepUps, initial_amount : 0..1 ] :
        a.annual_rate \in RawMonthlyRates(a.years) }

SwpRawArgs ==
    { a \in [ initial_amount : Amounts \cup {5 * MaxAmount},
              monthly_withdrawal : Amounts,
              annual_rate : {-1200, 0, 1200}, years : RawYears ] :
        a.annual_rate \in RawMonthlyRates(a.years) }

CombinedRawArgs ==
    { a \in [ sip_amount : {0, MaxAmount}, lumpsum_amount : RawLumpsums,
              annual_rate : {-1200, 0, 1200}, years : RawYears, step_up : {0},
              initial_amount : {0}, swp_withdrawal : 0..1,
              swp_start_year : {1} ] :
        a.annual_rate \in RawMonthlyRates(a.years) }

PhaseRawArgs ==
    UNION { [ sips_list : {<< >>}
                \cup { <<sip>> : sip \in [ amount : {MaxAmount},
                                           rate : RawMonthlyRates(years),
                                           step_up : {0} ] },
              lumpsums_list : {<< >>},
              swps_list : {<< >>, << [amount |-> 1, rate |-> 0, start_year |-> 1] >>},
              years : {years},
              rollover_nominal : {-1, 0, 5},
              additional_lumpsum : {-1, 0, 1},
              lumpsum_roi : {-100, 0, 100},
              inflation_rate : {0, 100},
              phase_start_year : {0} ] : years \in RawYears }

\* What a column read of a frame without that column raises.
KeyError == [error |-> "KeyError"]

\* The outcome of calculate_combined_portfolio_parallel.  With years < 1 no
\* row is built, the frames are pd.DataFrame() without columns, and the first
\* read of a column (df['Current_Value'] of a SIP, or
\* portfolio_df['Nominal_Portfolio_Value']) raises KeyError.
phase_outcome(a) == IF a.years < 1 THEN KeyError ELSE project_phase(a)

InitInputs ==
    /\ fn \in { "calculate_sip", "calculate_swp", "calculate_combined_investment",
                "calculate_combined_portfolio_parallel" }
    /\ args \in CASE fn = "calculate_sip" -> SipRawArgs
                  [] fn = "calculate_swp" -> SwpRawArgs
                  [] fn = "calculate_combined_investment" -> CombinedRawArgs
                  [] OTHER -> PhaseRawArgs
    /\ month = 0
    /\ loc = NoValue
    /\ ret = NoValue
    /\ session_state = NoValue /\ widgets = NoValue /\ reruns = 0

CallSip ==
    /\ fn = "calculate_sip" /\ ret = NoValue
    /\ ret' = calculate_sip(args.monthly_amount, args.annual_rate, args.years,
                            args.step_up, args.initial_amount)
    /\ UNCHANGED <<fn, args, month, loc, session_state, widgets, reruns>>

CallSwp ==
    /\ fn = "calculate_swp" /\ ret = NoValue
    /\ ret' = calculate_swp(args.initial_amount, args.monthly_withdrawal,
                            args.annual_rate, args.years)
    /\ UNCHANGED <<fn, args, month, loc, session_state, widgets, reruns>>

CallCombined ==
    /\ fn = "calculate_combined_investment" /\ ret = NoValue
    /\ ret' = calculate_combined_investment(
                  args.sip_amount, args.lumpsum_amount, args.annual_rate,
                  args.years, args.step_up, args.initial_amount,
                  args.swp_withdrawal, args.swp_start_year)
    /\ UNCHANGED <<fn, args, month, loc, session_state, widgets, reruns>>

CallPhase ==
    /\ fn = "calculate_combined_portfolio_parallel" /\ ret = NoValue
    /\ ret' = phase_outcome(args)
    /\ UNCHANGED <<fn, args, month, loc, session_state, widgets, reruns>>

NextInputs == CallSip \/ CallSwp \/ CallCombined \/ CallPhase

SpecInputs == InitInputs /\ [][NextInputs]_vars

\* ------------------------------------------- the UI session: main()
\* Every user action (a button press, an edited widget) reruns main() from
\* the top against st.session_state; one action of the model is one rerun.
\* session_state holds num_phases and, per displayed phase, the lists
\* sips_k, lumpsums_k, swps_k and portfolio_result_k (NoValue when the key is
\* absent); widgets holds the values of the keyed number inputs of each
\* displayed phase.

\* What "Add SIP", "Add Other Lumpsum" and "Add SWP" append.
DefaultSip == [amount |-> MaxAmount, rate |-> 0, step_up |-> 100]
DefaultLumpsum == [amount |-> MaxAmount, rate |-> 100]
DefaultSwp == [amount |-> 1, rate |-> 0, start_year |-> 1]

\* The `value=` of the number inputs of a phase.
DefaultWidgets ==
    [ portfolio_years       |-> MaxYears,
      inflation_rate        |-> 100,
      additional_lumpsum    |-> 0,
      lumpsum_roi           |-> 100,
      additional_investment |-> 0 ]

\* The values the user sets a number input to.
WidgetValues ==
    [ portfolio_years       |-> YearsSet,
      inflation_rate        |-> {0, 100},
      additional_lumpsum    |-> {0, MaxAmount},
      lumpsum_roi           |-> {0, 100},
      additional_investment |-> {0, 1} ]

Phases == 1..session_state.num_phases

\* What portfolio_investment_section returns: the stored nominal_final.
section_return_real(result) == result.real_final.num \div result.real_final.den

section_return(result) == result.nominal_final

\* The years a stored result adds to cumulative_years.
phase_years_cumulative(result) == Last(result.portfolio_df).Cumulative_Years

phase_years(result) == Len(result.portfolio_df)

RECURSIVE main_loop(_, _, _, _, _)
\* The loop `for phase in range(1, num_phases + 1)` of main() from `phase`
\* on: for each phase, the rollover_nominal and cumulative_years_before_phase
\* that portfolio_investment_section is called with.
main_loop(ss, w, phase, rollover_amount, cumulative_years) ==
    IF phase > ss.num_phases THEN << >>
    ELSE
      LET rollover_nominal ==
              IF phase > 1
              THEN rollover_amount + w[phase].additional_investment
              ELSE rollover_amount
          result == ss.portfolio_result[phase]
      IN  << [ rollover_nominal |-> rollover_nominal,
               cumulative_years_before_phase |-> cumulative_years ] >>
          \o (IF result = NoValue
              THEN main_loop(ss, w, phase + 1, rollover_nominal, cumulative_years)
              ELSE main_loop(ss, w, phase + 1, section_return(result),
                             IF result.portfolio_df # EmptyDf
                             THEN cumulative_years + phase_years(result)
                             ELSE cumulative_years))

\* Per phase, the arguments main() hands to portfolio_investment_section.
Handed == main_loop(session_state, widgets, 1, 0, 0)

\* The condition of the "Portfolio Summary" block, which counts SWP streams.
has_investments_summary(phase) ==
    \/ session_state.sips[phase] # << >>
    \/ session_state.lumpsums[phase] # << >>
    \/ session_state.swps[phase] # << >>
    \/ Handed[phase].rollover_nominal + widgets[phase].additional_lumpsum > 0

\* has_investments of portfolio_investment_section.
has_investments(phase) ==
    \/ session_state.sips[phase] # << >>
    \/ session_state.lumpsums[phase] # << >>
    \/ Handed[phase].rollover_nominal + widgets[phase].additional_lumpsum > 0

StreamCount(phase) ==
    Len(session_state.sips[phase]) + Len(session_state.lumpsums[phase])
      + Len(session_state.swps[phase])

\* What the Calculate button stores under portfolio_result_k.
stored_result(phase) ==
    LET h == Handed[phase]
        w == widgets[phase]
    IN  With(project_phase(
                 [ sips_list          |-> session_state.sips[phase],
                   lumpsums_list      |-> session_state.lumpsums[phase],
                   swps_list          |-> session_state.swps[phase],
                   years              |-> w.portfolio_years,
                   rollover_nominal   |-> h.rollover_nominal,
                   additional_lumpsum |-> w.additional_lumpsum,
                   lumpsum_roi        |-> w.lumpsum_roi,
                   inflation_rate     |-> w.inflation_rate,
                   phase_start_year   |-> h.cumulative_years_before_phase ]),
             LAMBDA r :
               [ nominal_final      |-> r.nominal_final,
                 real_final         |-> r.real_final,
                 total_invested     |-> r.total_invested,
                 total_withdrawn    |-> r.total_withdrawn,
                 net_benefit        |-> r.net_benefit,
                 portfolio_df       |-> r.portfolio_df,
                 inflation_rate     |-> w.inflation_rate,
                 rollover_nominal   |-> h.rollover_nominal,
                 additional_lumpsum |-> w.additional_lumpsum,
                 lumpsum_roi        |-> w.lumpsum_roi ])

Init ==
    /\ fn = "main" /\ args = NoValue /\ month = 0 /\ loc = NoValue
    /\ ret = NoValue
    /\ session_state = [ num_phases       |-> 1,
                         sips             |-> << << >> >>,
                         lumpsums         |-> << << >> >>,
                         swps             |-> << << >> >>,
                         portfolio_result |-> << NoValue >> ]
    /\ widgets = << DefaultWidgets >>
    /\ reruns = 0

Rerun ==
    /\ fn = "main" /\ reruns < MaxReruns
    /\ reruns' = reruns + 1
    /\ UNCHANGED <<fn, args, month, loc, ret>>

\* "Add Next Phase": the new phase is displayed with empty lists, no result
\* and its number inputs at their `value=`.
AddNextPhase ==
    /\ Rerun
    /\ session_state' =
         [ num_phases       |-> session_state.num_phases + 1,
           sips             |-> Append(session_state.sips, << >>),
           lumpsums         |-> Append(session_state.lumpsums, << >>),
           swps             |-> Append(session_state.swps, << >>),
           portfolio_result |-> Append(session_state.portfolio_result, NoValue) ]
    /\ widgets' = Append(widgets, DefaultWidgets)

\* "Reset All Phases" with a filter that misses the 'result_' keys: the stored
\* result of phase 1 survives.
ResetKeepsResults ==
    /\ Rerun
    /\ session_state' = [ num_phases       |-> 1,
                          sips             |-> << << >> >>,
                          lumpsums         |-> << << >> >>,
                          swps             |-> << << >> >>,
                          portfolio_result |-> << session_state.portfolio_result[1] >> ]
    /\ widgets' = << widgets[1] >>

\* "Reset All Phases": num_phases = 1 and every key with 'result_', 'sips_',
\* 'lumpsums_' or 'swps_' in its name is deleted; the section of phase 1 then
\* creates its lists again.  The number inputs of phase 1 keep their values.
ResetAllPhases ==
    /\ Rerun
    /\ session_state' = [ num_phases       |-> 1,
                          sips             |-> << << >> >>,
                          lumpsums         |-> << << >> >>,
                          swps             |-> << << >> >>,
                          portfolio_result |-> << NoValue >> ]
    /\ widgets' = << widgets[1] >>

\* "Clear All Investments" that also drops the stored result of the phase.
ClearAllAndResult ==
    \E phase \in Phases :
        /\ Rerun
        /\ session_state' = [ session_state EXCEPT !.sips[phase] = << >>,
                                                   !.lumpsums[phase] = << >>,
                                                   !.swps[phase] = << >>,
                                                   !.portfolio_result[phase] = NoValue ]
        /\ UNCHANGED widgets

\* "Clear All Investments" of a phase.
ClearAll ==
    \E phase \in Phases :
        /\ Rerun
        /\ session_state' = [ session_state EXCEPT !.sips[phase] = << >>,
                                                   !.lumpsums[phase] = << >>,
                                                   !.swps[phase] = << >> ]
        /\ UNCHANGED widgets

AddSip ==
    \E phase \in Phases :
        /\ Rerun /\ StreamCount(phase) < MaxStreams
        /\ session_state' =
             [ session_state EXCEPT !.sips[phase] = Append(@, DefaultSip) ]
        /\ UNCHANGED widgets

AddOtherLumpsum ==
    \E phase \in Phases :
        /\ Rerun /\ StreamCount(phase) < MaxStreams
        /\ session_state' =
             [ session_state EXCEPT !.lumpsums[phase] = Append(@, DefaultLumpsum) ]
        /\ UNCHANGED widgets

AddSwp ==
    \E phase \in Phases :
        /\ Rerun /\ StreamCount(phase) < MaxStreams
        /\ session_state' =
             [ session_state EXCEPT !.swps[phase] = Append(@, DefaultSwp) ]
        /\ UNCHANGED widgets

\* The remove button of the last stream of a list.
RemoveStream ==
    \E phase \in Phases, list \in {"sips", "lumpsums", "swps"} :
        /\ Rerun /\ session_state[list][phase] # << >>
        /\ session_state' =
             [ session_state EXCEPT ![list][phase] = SubSeq(@, 1, Len(@) - 1) ]
        /\ UNCHANGED widgets

\* A number input of a phase set to another value; "Additional Investment
\* for Phase k" is shown for the phases after the first.
EditWidget ==
    \E phase \in Phases, key \in DOMAIN WidgetValues :
      \E value \in WidgetValues[key] \ {widgets[phase][key]} :
        /\ Rerun
        /\ key = "additional_investment" => phase > 1
        /\ widgets' = [ widgets EXCEPT ![phase][key] = value ]
        /\ UNCHANGED session_state

\* "Calculate Portfolio - Phase k", enabled when has_investments.
Calculate ==
    \E phase \in Phases :
        /\ Rerun /\ has_investments(phase)
        /\ session_state' =
             [ session_state EXCEPT
                 !.portfolio_result[phase] = stored_result(phase) ]
        /\ UNCHANGED widgets

Next ==
    \/ AddNextPhase \/ ResetAllPhases \/ ClearAll
    \/ AddSip \/ AddOtherLumpsum \/ AddSwp \/ RemoveStream
    \/ EditWidget \/ Calculate

Spec == Init /\ [][Next]_vars

\* =========================================================== UI properties
InSession == fn = "main"
ResultOf(phase) == session_state.portfolio_result[phase]
HasResult(phase) == ResultOf(phase) # NoValue

Calculated(phase) ==
    /\ phase \in Phases /\ phase <= session_state'.num_phases
    /\ session_state'.portfolio_result[phase] # NoValue
    /\ session_state'.portfolio_result[phase] # ResultOf(phase)

CumulativeYearsInvariant ==
    InSession =>
        \A k \in Phases :
            k + 1 \in Phases =>
                Handed[k + 1].cumulative_years_before_phase
                  = SumTo([j \in 1..k |-> widgets[j].portfolio_years], k)

\* The years the stored result of a phase was calculated for; 0 without one.
CalculatedYears(phase) ==
    IF HasResult(phase) THEN Last(ResultOf(phase).portfolio_df).Year ELSE 0

\* C4 (amended): the cumulative_years handed to phase k+1 is the sum, over the
\* phases of 1..k that have a stored result, of the years that result was
\* calculated for; a phase without a stored result adds nothing.
CumulativeYearsOfStoredResults ==
    InSession =>
        \A k \in Phases :
            k + 1 \in Phases =>
                Handed[k + 1].cumulative_years_before_phase
                  = SumTo([j \in 1..k |-> CalculatedYears(j)], k)

\* Phase 1 was calculated for 2 years and its duration then set to 1: phase 2
\* starts at cumulative year 2.
CumulativeYearsOfStoredResultsWitness ==
    /\ InSession /\ 2 \in Phases /\ HasResult(1)
    /\ CalculatedYears(1) = 2 /\ widgets[1].portfolio_years = 1
    /\ Handed[2].cumulative_years_before_phase = 2

\* C21 (as claimed): in every reachable session state a stored result for
\* phase k+1 implies a stored result for phase k.
StrictPhaseOrder ==
    InSession =>
        \A k \in Phases :
            (k + 1 \in Phases /\ HasResult(k + 1)) => HasResult(k)

\* C22: in every reachable state of the phase chain of main() the rollover
\* amount handed to every phase is >= 0, and so is the nominal_final of every
\* stored result.
RolloverNonNegative ==
    InSession =>
        \A k \in Phases :
            /\ Handed[k].rollover_nominal >= 0
            /\ HasResult(k) => ResultOf(k).nominal_final >= 0

\* Phase 1 was calculated on a lumpsum that its SWP withdrew completely: the
\* withdrawals stopped at balance 0, which is what phase 2 is handed.
RolloverNonNegativeWitness ==
    /\ InSession /\ 2 \in Phases /\ HasResult(1)
    /\ ResultOf(1).total_invested > 0
    /\ ResultOf(1).total_withdrawn > 0
    /\ ResultOf(1).nominal_final = 0
    /\ Handed[2].rollover_nominal = 0

\* The session state of a plan that was just opened.
InitialPlan ==
    [ num_phases       |-> 1,
      sips             |-> << << >> >>,
      lumpsums         |-> << << >> >>,
      swps             |-> << << >> >>,
      portfolio_result |-> << NoValue >> ]

\* C28: after "Reset All Phases", from any reachable session state,
\* num_phases = 1 and the session holds no stored result and no SIP, lumpsum
\* or SWP stream, so the chain starts phase 1 with rollover 0 and
\* cumulative_years 0 and shows no later phase; num_phases >= 1 in every
\* reachable state.
ResetToInitialPlan ==
    [][ InSession =>
          /\ session_state.num_phases >= 1 /\ session_state'.num_phases >= 1
          /\ (ResetAllPhases \/ session_state'.num_phases < session_state.num_phases)
                => /\ session_state' = InitialPlan
                   /\ Len(widgets') = 1
                   /\ Handed' = << [ rollover_nominal |-> 0,
                                     cumulative_years_before_phase |-> 0 ] >> ]_vars

\* A plan back at one phase without streams or results after four reruns,
\* with the duration of phase 1 as the user had set it.
ResetToInitialPlanWitness ==
    /\ InSession /\ reruns = 4
    /\ session_state = InitialPlan
    /\ widgets[1].portfolio_years = 1
    /\ widgets[1].additional_lumpsum = MaxAmount

\* C29: a phase result is stored only when the phase has a SIP stream, an
\* other-lumpsum stream, or rollover + additional lumpsum > 0 (SWP streams
\* alone never give a result), and a phase without a stored result hands its
\* own rollover and cumulative years on to the next phase.
CalculationGating ==
    [][ InSession =>
          \A k \in Phases :
              /\ Calculated(k) =>
                    \/ session_state.sips[k] # << >>
                    \/ session_state.lumpsums[k] # << >>
                    \/ Handed[k].rollover_nominal
                         + widgets[k].additional_lumpsum > 0
              /\ (k + 1 \in Phases /\ ~HasResult(k)) =>
                    /\ Handed[k + 1].rollover_nominal
                         = Handed[k].rollover_nominal
                             + widgets[k + 1].additional_investment
                    /\ Handed[k + 1].cumulative_years_before_phase
                         = Handed[k].cumulative_years_before_phase ]_vars

\* Phase 1 holds only an SWP stream and has no result; phase 2 was calculated
\* from cumulative year 0 on its own SIP.
CalculationGatingWitness ==
    /\ InSession /\ 2 \in Phases
    /\ session_state.swps[1] # << >>
    /\ session_state.sips[1] = << >> /\ session_state.lumpsums[1] = << >>
    /\ widgets[1].additional_lumpsum = 0
    /\ ~HasResult(1) /\ HasResult(2)
    /\ ResultOf(2).rollover_nominal = 0
    /\ ResultOf(2).portfolio_df[1].Cumulative_Years = 1

\* C30: "Clear All Investments" of phase k empties the three stream lists of
\* phase k and changes nothing else: the lists of the other phases,
\* num_phases, the number inputs and every stored result stay, phase k's
\* own included, which remains what is rolled over to phase k+1.
ClearAllFrame ==
    [][ (InSession /\ ClearAll) =>
          \E k \in Phases :
              /\ session_state'.sips[k] = << >>
              /\ session_state'.lumpsums[k] = << >>
              /\ session_state'.swps[k] = << >>
              /\ session_state'.num_phases = session_state.num_phases
              /\ \A j \in Phases \ {k} :
                    /\ session_state'.sips[j] = session_state.sips[j]
                    /\ session_state'.lumpsums[j] = session_state.lumpsums[j]
                    /\ session_state'.swps[j] = session_state.swps[j]
              /\ session_state'.portfolio_result = session_state.portfolio_result
              /\ widgets' = widgets
              /\ (k + 1 \in Phases /\ HasResult(k)) =>
                    Handed'[k + 1].rollover_nominal
                      = ResultOf(k).nominal_final
                          + widgets[k + 1].additional_investment ]_vars

\* Phase 1 was calculated on a SIP and then cleared: its lists are empty, its
\* result is still stored and is what phase 2 is handed.
ClearAllFrameWitness ==
    /\ InSession /\ 2 \in Phases /\ HasResult(1)
    /\ session_state.sips[1] = << >> /\ session_state.lumpsums[1] = << >>
    /\ session_state.swps[1] = << >>
    /\ ResultOf(1).portfolio_df[1].Total_SIP_Invested > 0
    /\ ResultOf(1).nominal_final > 0
    /\ Handed[2].rollover_nominal = ResultOf(1).nominal_final

\* ======================================================= ledger properties
IsSwp == fn = "calculate_swp"
IsSip == fn = "calculate_sip"
IsCombined == fn = "calculate_combined_investment"

\* The periodic withdrawal and the contribution configured for the run.
RunWithdrawal == IF IsSwp THEN args.monthly_withdrawal ELSE args.swp_withdrawal
RunContribution == IF IsSip THEN args.monthly_amount ELSE args.sip_amount
RunPrincipal ==
    IF IsCombined THEN args.initial_amount + args.lumpsum_amount
    ELSE args.initial_amount

\* C1: in calculate_swp and calculate_combined_investment, with non-negative
\* inputs, the running balance is >= 0 after the withdrawal step of every
\* month 1..years*12.
WithdrawalFloor ==
    (IsSwp \/ IsCombined) => loc.current_amount >= 0

\* A month of calculate_swp in which the balance did not cover the withdrawal,
\* after months in which it did.
WithdrawalFloorWitness ==
    /\ IsSwp /\ month >= 3
    /\ args.monthly_withdrawal > 0
    /\ loc.total_withdrawn > 0
    /\ loc.total_withdrawn < month * args.monthly_withdrawal
    /\ loc.current_amount >= 0

\* C5: in calculate_sip and calculate_combined_investment the contribution of
\* month m is monthly_amount * (1 + step_up/100)^((m-1) div 12), so the
\* months 1..12 contribute the un-stepped amount and the year-1 row's invested
\* total is initial + 12 * monthly_amount.
StepUpOrdering ==
    [][ ((IsSip \/ IsCombined) /\ month' = month + 1) =>
          /\ loc'.total_invested - loc.total_invested =
                RunContribution * Pow(pct_factor(args.step_up), month \div MonthsPerYear)
          /\ Len(loc'.data) >= 1 =>
                (IF IsSip THEN loc'.data[1].Amount_Invested
                          ELSE loc'.data[1].Total_Invested)
                    = RunPrincipal + MonthsPerYear * RunContribution ]_vars

\* calculate_sip in its second year with a step-up: twelve un-stepped
\* contributions, then stepped ones.
StepUpOrderingWitness ==
    /\ IsSip /\ args.step_up > 0 /\ args.monthly_amount > 0
    /\ month > MonthsPerYear
    /\ loc.total_invested =
         args.initial_amount + MonthsPerYear * args.monthly_amount
           + (month - MonthsPerYear) * args.monthly_amount * pct_factor(args.step_up)

\* The balance of the run after the contribution and the growth of the month
\* that follows the current state, before its withdrawal step.
GrownBalance ==
    IF IsSwp
    THEN loc.current_amount * (1 + monthly_rate_of(args.annual_rate))
    ELSE (loc.current_amount + (loc'.total_invested - loc.total_invested))
            * (1 + monthly_rate_of(args.annual_rate))

\* The months of the run so far in which the withdrawal step was eligible.
EligibleMonths ==
    IF IsSwp THEN month
    ELSE IF month > MonthsPerYear * (args.swp_start_year - 1)
         THEN month - MonthsPerYear * (args.swp_start_year - 1) ELSE 0

NoPartialStep ==
    ((IsSwp \/ IsCombined) /\ month' = month + 1) =>
        \/ /\ GrownBalance >= RunWithdrawal
           /\ loc'.current_amount = GrownBalance - RunWithdrawal
           /\ loc'.total_withdrawn = loc.total_withdrawn + RunWithdrawal
        \/ /\ loc'.current_amount = GrownBalance
           /\ loc'.total_withdrawn = loc.total_withdrawn

WithdrawnIsMultiple ==
    (IsSwp \/ IsCombined) =>
        \E k \in 0..EligibleMonths : loc.total_withdrawn = k * RunWithdrawal

\* C6: in calculate_swp and calculate_combined_investment the withdrawal step
\* of a month subtracts the full periodic amount (the post-growth balance
\* covers it) or leaves balance and total_withdrawn unchanged; total_withdrawn
\* is an integer multiple of the amount, at most eligible months * amount.
NoPartialWithdrawal ==
    [][ NoPartialStep /\ WithdrawnIsMultiple' ]_vars

\* calculate_swp skips a month with a positive balance smaller than the
\* withdrawal: nothing is taken, the balance stays.
NoPartialWithdrawalWitness ==
    /\ IsSwp /\ month >= 2
    /\ loc.current_amount > 0
    /\ loc.current_amount < args.monthly_withdrawal
    /\ loc.total_withdrawn = args.monthly_withdrawal

\* C7: in calculate_combined_investment with swp_start_year = s nothing is
\* withdrawn through month 12*(s-1), and month 12*(s-1)+1 is the first month
\* whose withdrawal step runs: it takes the withdrawal when the balance
\* covers it.
CombinedSwpStartYear ==
    (IsCombined /\ args.swp_withdrawal > 0) =>
        LET first == MonthsPerYear * (args.swp_start_year - 1) + 1
        IN  /\ month < first => loc.total_withdrawn = 0
            /\ month = first =>
                  \/ loc.total_withdrawn = args.swp_withdrawal
                  \/ /\ loc.total_withdrawn = 0
                     /\ loc.current_amount < args.swp_withdrawal

\* The first withdrawal of a run whose withdrawals start in year 2 is made in
\* month 13.
CombinedSwpStartYearWitness ==
    /\ IsCombined /\ args.swp_start_year = 2 /\ args.swp_withdrawal > 0
    /\ month = MonthsPerYear + 1
    /\ loc.total_withdrawn = args.swp_withdrawal

\* C11: calculate_sip with step_up = 0, initial_amount = 0 and a monthly rate
\* r > 0 returns, after n = 12 * years months, final_amount =
\* monthly_amount * ((1 + r)^n - 1) / r * (1 + r) (the annuity-due value); the
\* equation is stated multiplied by r.
SipAnnuityDue ==
    (IsSip /\ ret # NoValue /\ args.step_up = 0 /\ args.initial_amount = 0
       /\ monthly_rate_of(args.annual_rate) > 0) =>
        LET r == monthly_rate_of(args.annual_rate)
            n == MonthsPerYear * args.years
        IN  ret.final_amount * r
              = args.monthly_amount * (Pow(1 + r, n) - 1) * (1 + r)

\* One unit a month at a monthly rate of 100 % for one year: (2^12 - 1) * 2.
SipAnnuityDueWitness ==
    /\ IsSip /\ ret # NoValue /\ args.step_up = 0 /\ args.initial_amount = 0
    /\ args.annual_rate = 1200 /\ args.monthly_amount = 1 /\ args.years = 1
    /\ ret.final_amount = 8190

\* C26: in every year row of calculate_combined_investment, Total_Invested =
\* Lumpsum_Invested + SIP_Invested, Lumpsum_Invested = lumpsum_amount +
\* initial_amount, and Net_Returns = Current_Value + Total_Withdrawn -
\* Total_Invested; the returned final_amount, total_invested and
\* total_withdrawn are those of the last row.
CombinedBookkeeping ==
    IsCombined =>
        /\ \A i \in 1..Len(loc.data) :
              LET row == loc.data[i]
              IN  /\ row.Total_Invested = row.Lumpsum_Invested + row.SIP_Invested
                  /\ row.Lumpsum_Invested = args.lumpsum_amount + args.initial_amount
                  /\ row.Net_Returns =
                       row.Current_Value + row.Total_Withdrawn - row.Total_Invested
        /\ ret # NoValue =>
              /\ ret.final_amount = Last(ret.df).Current_Value
              /\ ret.total_invested = Last(ret.df).Total_Invested
              /\ ret.total_withdrawn = Last(ret.df).Total_Withdrawn

\* A returned two-year run with an opening balance, a lumpsum, contributions
\* and withdrawals.
CombinedBookkeepingWitness ==
    /\ IsCombined /\ ret # NoValue /\ Len(ret.df) = 2
    /\ args.initial_amount > 0 /\ args.lumpsum_amount > 0
    /\ Last(ret.df).SIP_Invested > 0
    /\ Last(ret.df).Total_Withdrawn > 0
    /\ Last(ret.df).Net_Returns > 0

\* The column of a ledger's year rows that holds the cumulative invested
\* total.
InvestedColumn(row) ==
    IF IsSip THEN row.Amount_Invested ELSE row.Total_Invested

\* C27: in calculate_sip, calculate_swp and calculate_combined_investment
\* with non-negative amounts, the cumulative invested total and the
\* cumulative withdrawn total never decrease from one month to the next, so
\* the Amount_Invested / Total_Invested and Total_Withdrawn columns are
\* non-decreasing in Year.
MonotoneTotals ==
    [][ month' = month + 1 =>
          /\ (IsSip \/ IsCombined) =>
                /\ loc'.total_invested >= loc.total_invested
                /\ \A i \in 1..Len(loc'.data) - 1 :
                      InvestedColumn(loc'.data[i + 1]) >= InvestedColumn(loc'.data[i])
          /\ (IsSwp \/ IsCombined) =>
                /\ loc'.total_withdrawn >= loc.total_withdrawn
                /\ \A i \in 1..Len(loc'.data) - 1 :
                      loc'.data[i + 1].Total_Withdrawn >= loc'.data[i].Total_Withdrawn ]_vars

\* calculate_swp after two years: withdrawals in the first year, then a
\* balance that no longer covers one, so the second row repeats the total.
MonotoneTotalsWitness ==
    /\ IsSwp /\ Len(loc.data) = 2
    /\ loc.data[1].Total_Withdrawn > 0
    /\ loc.data[2].Total_Withdrawn = loc.data[1].Total_Withdrawn
    /\ loc.current_amount < args.monthly_withdrawal

\* ======================================================== phase properties
Returned == ret # NoValue
IsPhase == fn = "calculate_combined_portfolio_parallel"
PhaseDone == IsPhase /\ Returned

\* C3: with inflation_rate > 0 and phase_start_year = s, the row of phase-local
\* year y has Cumulative_Years = s + y and Real_Portfolio_Value =
\* Nominal_Portfolio_Value / (1 + inflation_rate/100)^(s + y); when s > 0 the
\* divisor is not the one of the phase-local year alone.
CumulativeDeflation ==
    (PhaseDone /\ args.inflation_rate > 0) =>
        \A y \in 1..args.years :
            LET row == ret.portfolio_df[y]
                s   == args.phase_start_year
                deflator(e) == Pow(1 + args.inflation_rate \div 100, e)
            IN  /\ row.Year = y
                /\ row.Cumulative_Years = s + y
                /\ row.Real_Portfolio_Value =
                       Frac(row.Nominal_Portfolio_Value, deflator(s + y))
                /\ (s > 0 /\ row.Nominal_Portfolio_Value > 0) =>
                       row.Real_Portfolio_Value #
                           Frac(row.Nominal_Portfolio_Value, deflator(y))

\* A phase that starts after two elapsed years: its year-1 row of value 12 is
\* deflated by 2^3.
CumulativeDeflationWitness ==
    /\ PhaseDone /\ args.inflation_rate = 100 /\ args.phase_start_year = 2
    /\ ret.portfolio_df[1].Nominal_Portfolio_Value = 12
    /\ ret.portfolio_df[1].Real_Portfolio_Value = [num |-> 3, den |-> 2]

\* The earliest start year among the SWP streams of the phase.
EarliestSwpStart ==
    CHOOSE s \in YearsSet :
        /\ \E i \in DOMAIN args.swps_list : args.swps_list[i].start_year = s
        /\ \A i \in DOMAIN args.swps_list : args.swps_list[i].start_year >= s

\* C8: in a phase, an SWP stream with start_year = s withdraws nothing during
\* the phase years 1..s-1: every row with Year < s (the earliest s among the
\* streams) reports Total_Withdrawn = 0.
PhaseSwpStartYear ==
    (PhaseDone /\ args.swps_list # << >>) =>
        \A y \in 1..args.years :
            y < EarliestSwpStart => ret.portfolio_df[y].Total_Withdrawn = 0

\* The phase as the single-balance ledger of calculate_combined_investment
\* runs it: one SIP at most, one rate for the SIP and the lumpsum.
PoolComparable ==
    /\ args.lumpsums_list = << >> /\ args.swps_list = << >>
    /\ Len(args.sips_list) <= 1
    /\ args.lumpsum_roi % 1200 = 0
    /\ \A i \in DOMAIN args.sips_list : args.sips_list[i].rate = args.lumpsum_roi

PooledLedgerFinal ==
    LET sip == IF args.sips_list = << >>
               THEN [amount |-> 0, rate |-> args.lumpsum_roi, step_up |-> 0]
               ELSE args.sips_list[1]
    IN  calculate_combined_investment(
            sip.amount, args.additional_lumpsum, args.lumpsum_roi, args.years,
            sip.step_up, args.rollover_nominal, 0, 1).final_amount

\* C9 as stated: the nominal_final of a phase is the ending balance of one
\* pooled ledger, the result of calculate_combined_investment on the same
\* lumpsum, SIP and rate.
PooledBalance ==
    (PhaseDone /\ PoolComparable) => ret.nominal_final = PooledLedgerFinal

\* The sum of the stand-alone compounded values of the streams of the phase.
StandAloneSum ==
    LET n == Len(args.sips_list)
        k == Len(args.lumpsums_list)
    IN  SumTo([ i \in 1..n |->
                  calculate_sip(args.sips_list[i].amount, args.sips_list[i].rate,
                                args.years, args.sips_list[i].step_up,
                                0).final_amount ], n)
        + (args.rollover_nominal + args.additional_lumpsum)
              * Pow(1 + args.lumpsum_roi \div 100, args.years)
        + SumTo([ i \in 1..k |->
                    args.lumpsums_list[i].amount
                      * Pow(1 + args.lumpsums_list[i].rate \div 100, args.years) ], k)

\* C9 as amended: without SWP streams the nominal_final of a phase is the sum
\* of the stand-alone compounded values of its streams (each SIP compounded
\* monthly at its own rate, the combined lumpsum and each other lumpsum
\* compounded annually at its own rate); it is the ending balance of the pooled
\* ledger when the combined lumpsum is 0 or the common rate is 0.
NominalIsSumOfStreams ==
    /\ (PhaseDone /\ args.swps_list = << >>) => ret.nominal_final = StandAloneSum
    /\ ( /\ PhaseDone /\ PoolComparable
         /\ (args.rollover_nominal + args.additional_lumpsum = 0
               \/ args.lumpsum_roi = 0) )
         => ret.nominal_final = PooledLedgerFinal

\* Two SIPs and a lumpsum, each compounded alone, summed.
NominalIsSumOfStreamsWitness ==
    /\ PhaseDone /\ args.swps_list = << >> /\ args.lumpsums_list = << >>
    /\ Len(args.sips_list) = 2
    /\ args.sips_list[1].rate # args.sips_list[2].rate
    /\ args.rollover_nominal + args.additional_lumpsum > 0
    /\ args.lumpsum_roi = 100
    /\ ret.nominal_final = StandAloneSum

\* C10: a phase holding one lumpsum only ends with principal *
\* (1 + rate/100)^years: the combined lumpsum (rollover + additional) at
\* lumpsum_roi, and a lumpsum run by calculate_lumpsum at its own rate, whose
\* row of year y holds principal * (1 + rate/100)^y.
LumpsumClosedForm ==
    (PhaseDone /\ args.sips_list = << >> /\ args.swps_list = << >>) =>
        /\ args.lumpsums_list = << >> =>
              ret.nominal_final =
                  (args.rollover_nominal + args.additional_lumpsum)
                      * Pow(1 + args.lumpsum_roi \div 100, args.years)
        /\ ( /\ Len(args.lumpsums_list) = 1
             /\ args.rollover_nominal + args.additional_lumpsum = 0 ) =>
              LET l == args.lumpsums_list[1]
              IN  /\ ret.nominal_final =
                         l.amount * Pow(1 + l.rate \div 100, args.years)
                  /\ \A y \in 1..args.years :
                         ret.portfolio_df[y].Nominal_Portfolio_Value =
                             l.amount * Pow(1 + l.rate \div 100, y)

\* Rollover 5 and additional 1 at 100 % for two years: 24.
LumpsumClosedFormWitness ==
    /\ PhaseDone /\ args.sips_list = << >> /\ args.swps_list = << >>
    /\ args.lumpsums_list = << >>
    /\ args.rollover_nominal = 5 /\ args.additional_lumpsum = 1
    /\ args.lumpsum_roi = 100 /\ args.years = 2
    /\ ret.nominal_final = 24

\* The principal of a phase: rollover + additional lumpsum + other lumpsums.
PhasePrincipal ==
    args.rollover_nominal + args.additional_lumpsum
      + SumTo([i \in DOMAIN args.lumpsums_list |-> args.lumpsums_list[i].amount],
              Len(args.lumpsums_list))

LumpsumOnly == args.sips_list = << >> /\ args.swps_list = << >>

ZeroRates ==
    /\ args.lumpsum_roi = 0
    /\ \A i \in DOMAIN args.lumpsums_list : args.lumpsums_list[i].rate = 0

\* C12: at an annual rate of 0 the monthly growth factor is 1, and a
\* lumpsum-only phase (calculate_combined_portfolio_parallel without SIP and
\* SWP, calculate_lumpsum, calculate_combined_investment without SIP and SWP)
\* ends with the principal it started with and shows it in every year row.
ZeroRatePrincipal ==
    (PhaseDone /\ LumpsumOnly /\ ZeroRates) =>
        LET lumpsum == calculate_lumpsum(PhasePrincipal, 0, args.years, 0)
            ledger  == calculate_combined_investment(0, PhasePrincipal, 0,
                                                     args.years, 0, 0, 0, 1)
        IN  /\ 1 + monthly_rate_of(0) = 1
            /\ ret.nominal_final = PhasePrincipal
            /\ lumpsum.final_amount = PhasePrincipal
            /\ ledger.final_amount = PhasePrincipal
            /\ Len(ret.portfolio_df) = args.years
            /\ \A y \in 1..args.years :
                  /\ ret.portfolio_df[y].Nominal_Portfolio_Value = PhasePrincipal
                  /\ lumpsum.df[y].Current_Value = PhasePrincipal
                  /\ ledger.df[y].Current_Value = PhasePrincipal

\* A phase of 2 years at rate 0 holding a rollover of 5, an additional
\* lumpsum of 1 and one other lumpsum.
ZeroRatePrincipalWitness ==
    /\ PhaseDone /\ LumpsumOnly /\ ZeroRates
    /\ args.rollover_nominal = 5 /\ args.additional_lumpsum = 1
    /\ Len(args.lumpsums_list) = 1 /\ args.years = 2
    /\ ret.nominal_final = 6 + MaxAmount
    /\ ret.portfolio_df[1].Nominal_Portfolio_Value = 6 + MaxAmount

\* The nominal values and the cumulative years of the rows of the result.
NominalValues ==
    [y \in 1..Len(ret.portfolio_df) |-> ret.portfolio_df[y].Nominal_Portfolio_Value]
CumulativeYears ==
    [y \in 1..Len(ret.portfolio_df) |-> ret.portfolio_df[y].Cumulative_Years]

\* The rates at which the adjustment is the identity: 0 and a negative one.
NonPositiveRates == {0, -200}

\* A real value equal to a nominal one.
SameValue(real, nominal) == real.num = nominal * real.den

\* C13: apply_inflation_adjustment(values, rate, years) is values, element for
\* element, when rate <= 0, whatever the cumulative years; a phase run with
\* inflation_rate = 0 has Real_Portfolio_Value = Nominal_Portfolio_Value in
\* every row and real_final = nominal_final.
InflationIdentity ==
    PhaseDone =>
        /\ \A rate \in NonPositiveRates :
              LET real == apply_inflation_adjustment(NominalValues, rate,
                                                     CumulativeYears)
              IN  /\ Len(real) = Len(NominalValues)
                  /\ \A i \in 1..Len(real) : SameValue(real[i], NominalValues[i])
        /\ args.inflation_rate = 0 =>
              /\ SameValue(ret.real_final, ret.nominal_final)
              /\ \A y \in 1..args.years :
                    SameValue(ret.portfolio_df[y].Real_Portfolio_Value,
                              ret.portfolio_df[y].Nominal_Portfolio_Value)

\* A phase without inflation that starts at cumulative year 2 and ends with a
\* positive balance.
InflationIdentityWitness ==
    /\ PhaseDone /\ args.inflation_rate = 0 /\ args.phase_start_year = 2
    /\ ret.nominal_final > 0
    /\ ret.real_final = Frac(ret.nominal_final, 1)
    /\ ret.portfolio_df[1].Real_Portfolio_Value
         = Frac(ret.portfolio_df[1].Nominal_Portfolio_Value, 1)

\* A real value below a nominal one (a whole number): num / den < nominal.
BelowValue(real, nominal) == real.num \div real.den < nominal

\* C14 (as claimed): with inflation_rate > 0 every real value is strictly
\* less than its nominal value, a nominal value of 0 included.
InflationStrictlyLess ==
    (PhaseDone /\ args.inflation_rate > 0) =>
        \A y \in 1..args.years :
            ret.portfolio_df[y].Cumulative_Years > 0 =>
                BelowValue(ret.portfolio_df[y].Real_Portfolio_Value,
                           ret.portfolio_df[y].Nominal_Portfolio_Value)

\* C14 (amended): with inflation_rate > 0 every row has a cumulative year > 0;
\* its real value is strictly less than its nominal value when the nominal
\* value is positive and is 0 when the nominal value is 0.
InflationLessWhenPositive ==
    (PhaseDone /\ args.inflation_rate > 0) =>
        \A y \in 1..args.years :
            LET row == ret.portfolio_df[y]
            IN  /\ row.Cumulative_Years > 0
                /\ row.Nominal_Portfolio_Value >= 0
                /\ row.Nominal_Portfolio_Value > 0 =>
                      BelowValue(row.Real_Portfolio_Value, row.Nominal_Portfolio_Value)
                /\ row.Nominal_Portfolio_Value = 0 =>
                      row.Real_Portfolio_Value = Frac(0, 1)

\* A lumpsum of 6 doubled twice, then withdrawn at 1 a month: 12 is left after
\* the first year (real value 6) and 0 after the second (real value 0).
InflationLessWhenPositiveWitness ==
    /\ PhaseDone /\ args.inflation_rate = 100 /\ args.phase_start_year = 0
    /\ args.years = 2 /\ ret.total_withdrawn = 24
    /\ ret.portfolio_df[1].Nominal_Portfolio_Value = 12
    /\ ret.portfolio_df[1].Real_Portfolio_Value = Frac(6, 1)
    /\ ret.portfolio_df[2].Nominal_Portfolio_Value = 0
    /\ ret.portfolio_df[2].Real_Portfolio_Value = Frac(0, 1)

\* The contributions of one SIP over the months of `years` years: month m
\* pays amount * (1 + step_up/100)^((m - 1) div 12).
SipContributions(sip, years) ==
    SumTo([m \in 1..(MonthsPerYear * years) |->
             sip.amount * Pow(pct_factor(sip.step_up), (m - 1) \div MonthsPerYear)],
          MonthsPerYear * years)

\* C16: net_benefit = nominal_final + total_withdrawn - total_invested, where
\* total_invested = rollover + additional lumpsum + the other lumpsums + all
\* SIP contributions made during the phase.
NetBenefit ==
    PhaseDone =>
        /\ ret.net_benefit
             = ret.nominal_final + ret.total_withdrawn - ret.total_invested
        /\ ret.total_invested
             = PhasePrincipal
                 + SumTo([i \in DOMAIN args.sips_list |->
                            SipContributions(args.sips_list[i], args.years)],
                         Len(args.sips_list))

\* A phase with a stepped-up SIP and an SWP that withdraws.
NetBenefitWitness ==
    /\ PhaseDone /\ args.years = 2 /\ args.rollover_nominal = 5
    /\ Len(args.sips_list) = 1 /\ args.sips_list[1].step_up = 100
    /\ Len(args.swps_list) = 1 /\ ret.total_withdrawn > 0
    /\ ret.total_invested
         = 5 + args.additional_lumpsum + 36 * args.sips_list[1].amount
    /\ ret.net_benefit # ret.nominal_final - ret.total_invested

\* The rows of a frame are numbered 1, 2, ..., years.
YearRows(df, years) ==
    /\ Len(df) = years
    /\ \A y \in 1..years : df[y].Year = y

\* The single-balance ledger run on the combined lumpsum, the first SIP and
\* the first SWP of the phase, for `years` years.
LedgerOfPhase(years) ==
    LET sip == IF args.sips_list # << >> THEN args.sips_list[1]
               ELSE [amount |-> 0, rate |-> 0, step_up |-> 0]
        swp == IF args.swps_list # << >> THEN args.swps_list[1]
               ELSE [amount |-> 0, rate |-> 0, start_year |-> 1]
    IN  calculate_combined_investment(
            sip.amount, args.rollover_nominal + args.additional_lumpsum, sip.rate,
            years, sip.step_up, 0, swp.amount, swp.start_year)

\* C17: for years >= 1 each of calculate_sip, calculate_lumpsum,
\* calculate_swp, calculate_combined_investment and
\* calculate_combined_portfolio_parallel returns exactly `years` rows with
\* Year = 1, 2, ..., years, and the row of year y of a monthly loop is the
\* state of the loop after month 12 * y (what a run of y years ends with).
YearRowSequence ==
    PhaseDone =>
        LET years == args.years
            seed  == args.rollover_nominal + args.additional_lumpsum
        IN  /\ YearRows(ret.portfolio_df, years)
            /\ \A i \in DOMAIN args.sips_list :
                  LET sip == args.sips_list[i]
                      run(n) == calculate_sip(sip.amount, sip.rate, n, sip.step_up, seed)
                  IN  With(run(years), LAMBDA full :
                        /\ YearRows(full.df, years)
                        /\ \A y \in 1..years :
                             With(run(y), LAMBDA part :
                               /\ full.df[y].Current_Value = part.final_amount
                               /\ full.df[y].Amount_Invested = part.total_invested))
            /\ \A i \in DOMAIN args.lumpsums_list :
                  LET lumpsum == args.lumpsums_list[i]
                  IN  YearRows(calculate_lumpsum(lumpsum.amount, lumpsum.rate,
                                                 years, seed).df, years)
            /\ \A i \in DOMAIN args.swps_list :
                  LET swp == args.swps_list[i]
                      run(n) == calculate_swp(seed, swp.amount, swp.rate, n)
                  IN  With(run(years), LAMBDA full :
                        /\ YearRows(full.df, years)
                        /\ \A y \in 1..years :
                             With(run(y), LAMBDA part :
                               /\ full.df[y].Remaining_Value = part.remaining_amount
                               /\ full.df[y].Total_Withdrawn = part.total_withdrawn))
            /\ With(LedgerOfPhase(years), LAMBDA full :
                  /\ YearRows(full.df, years)
                  /\ \A y \in 1..years :
                       With(LedgerOfPhase(y), LAMBDA part :
                         /\ full.df[y].Current_Value = part.final_amount
                         /\ full.df[y].Total_Withdrawn = part.total_withdrawn))

\* A phase of 2 years with a SIP and another lumpsum: two rows, Year 1 and 2.
YearRowSequenceWitness ==
    /\ PhaseDone /\ args.years = 2
    /\ Len(args.sips_list) = 1 /\ Len(args.lumpsums_list) = 1
    /\ Len(ret.portfolio_df) = 2
    /\ ret.portfolio_df[1].Year = 1 /\ ret.portfolio_df[2].Year = 2
    /\ ret.portfolio_df[1].Nominal_Portfolio_Value
         # ret.portfolio_df[2].Nominal_Portfolio_Value

\* The phase as one ledger that takes the withdrawals month by month, inside
\* the months of the phase: calculate_combined_investment on the SIP, the
\* lumpsum and the SWP of the phase, where all of them run at one rate.
InterleavedComparable ==
    /\ args.lumpsums_list = << >>
    /\ Len(args.sips_list) <= 1 /\ Len(args.swps_list) = 1
    /\ args.lumpsum_roi % 1200 = 0
    /\ \A i \in DOMAIN args.sips_list : args.sips_list[i].rate = args.lumpsum_roi
    /\ args.swps_list[1].rate = args.lumpsum_roi

InterleavedLedger ==
    LET sip == IF args.sips_list = << >>
               THEN [amount |-> 0, rate |-> args.lumpsum_roi, step_up |-> 0]
               ELSE args.sips_list[1]
    IN  calculate_combined_investment(
            sip.amount, args.additional_lumpsum, args.lumpsum_roi, args.years,
            sip.step_up, args.rollover_nominal, args.swps_list[1].amount, 1)

\* C23 (as claimed): a phase of D years applies D*12 monthly periods in all,
\* the withdrawals of its SWP streams taken inside them, month by month with
\* contributions and growth: the year rows and the totals of the phase are
\* those of the ledger that interleaves them over the D*12 months.
WithdrawalsInsidePhase ==
    (PhaseDone /\ InterleavedComparable) =>
        With(InterleavedLedger, LAMBDA ledger :
            /\ ret.nominal_final = ledger.final_amount
            /\ ret.total_withdrawn = ledger.total_withdrawn
            /\ \A y \in 1..args.years :
                  /\ ret.portfolio_df[y].Nominal_Portfolio_Value
                       = ledger.df[y].Current_Value
                  /\ ret.portfolio_df[y].Total_Withdrawn
                       = ledger.df[y].Total_Withdrawn)

\* The SIP dict of the test for a stream of the phase.
ReferenceSip(stream) ==
    [ monthly_sip |-> stream.amount, annual_return |-> stream.rate,
      years |-> args.years, step_up |-> stream.step_up ]

ReferenceSips == [ i \in DOMAIN args.sips_list |-> ReferenceSip(args.sips_list[i]) ]

\* C24: the reference SIP loop of the test (per year: 12 months of amount =
\* (amount + sip) * (1 + rate/1200), then one step-up) ends with the
\* final_amount of calculate_sip with initial_amount = 0, and its sum over
\* the SIPs is the total_final_amount of calculate_multiple_sips with
\* initial_amount = 0, which the phase reports as its last Total_SIP_Value.
ReferenceSipEquivalence ==
    (PhaseDone /\ args.sips_list # << >>) =>
        /\ \A i \in DOMAIN args.sips_list :
              reference_sip(ReferenceSips[i])
                = calculate_sip(args.sips_list[i].amount, args.sips_list[i].rate,
                                args.years, args.sips_list[i].step_up, 0).final_amount
        /\ reference_multiple_sips(ReferenceSips)
             = calculate_multiple_sips(args.sips_list, args.years, 0).total_final_amount
        /\ reference_multiple_sips(ReferenceSips)
             = Last(ret.portfolio_df).Total_SIP_Value

\* Two SIPs over two years, one of them growing and stepped up.
ReferenceSipEquivalenceWitness ==
    /\ PhaseDone /\ Len(args.sips_list) = 2 /\ args.years = 2
    /\ args.sips_list[1].rate = 1200 /\ args.sips_list[1].step_up = 100
    /\ args.sips_list[2].rate = 0 /\ args.sips_list[2].step_up = 0
    /\ reference_sip(ReferenceSips[1]) > reference_sip(ReferenceSips[2])
    /\ Last(ret.portfolio_df).Total_SIP_Value
         = reference_sip(ReferenceSips[1]) + reference_sip(ReferenceSips[2])

\* C25 (as claimed): the last year row of a phase result holds the returned
\* nominal_final as its Nominal_Portfolio_Value and the returned
\* total_withdrawn as its Total_Withdrawn, and with inflation_rate > 0 the
\* returned real_final is nominal_final / (1 + inflation_rate/100)^
\* (phase_start_year + years).
FinalRowAgrees ==
    PhaseDone =>
        /\ Last(ret.portfolio_df).Nominal_Portfolio_Value = ret.nominal_final
        /\ Last(ret.portfolio_df).Total_Withdrawn = ret.total_withdrawn
        /\ args.inflation_rate > 0 =>
              ret.real_final =
                  Frac(ret.nominal_final,
                       Pow(1 + args.inflation_rate \div 100,
                           args.phase_start_year + args.years))

\* ================================================ properties of raw calls
Raised(error) == ret = [error |-> error]
PhaseReturned == IsPhase /\ ret # NoValue

\* C18: when rollover_nominal + additional_lumpsum < 0,
\* calculate_combined_portfolio_parallel fails with InvalidLumpsumError and
\* returns no result.
NegativeLumpsumRejected ==
    (PhaseReturned /\ args.rollover_nominal + args.additional_lumpsum < 0) =>
        Raised("InvalidLumpsumError")

\* C19: an annual rate < 0 fails with InvalidRateError, and for every rate
\* >= 0 the monthly growth factor of calculate_sip, calculate_swp and
\* calculate_combined_investment is >= 1.
NegativeRateRejected ==
    ((IsSip \/ IsSwp \/ IsCombined) /\ ret # NoValue) =>
        /\ args.annual_rate < 0 => Raised("InvalidRateError")
        /\ args.annual_rate >= 0 => 1 + monthly_rate_of(args.annual_rate) >= 1

\* C20: a phase with years < 1 fails with InvalidDurationError, and with no
\* other failure.
InvalidDurationRejected ==
    (PhaseReturned /\ args.years < 1) => Raised("InvalidDurationError")

====
